---- MODULE Spec2Model ----
(***************************************************************************)
(* Model of ia_ebooks.py: the paged search iterator IA, the eager          *)
(* fetch_list, the catalog id extraction clio_id, the catalog fetch        *)
(* fetch_clio with its retry, and the callers of fetch_clio in __main__.   *)
(***************************************************************************)
EXTENDS Integers, Sequences, FiniteSets, TLC

\* ------------------------------------------------------------------ bounds
MaxN == 5            \* largest server total (numFound) enumerated
MaxP == 3            \* largest page size (rows) enumerated
MaxTraversals == 2   \* iter() calls on one IA object, the one of fetch_iter included
MaxStops == 2        \* next() calls answered by StopIteration per traversal
MaxFaults == 1       \* failed or anomalous search responses per IA object
MaxRequests == 4     \* catalog requests of one outermost fetch_clio call
MaxDumpLen == 3      \* longest sequence handed to dump_iterable as a list

\* The end-to-end scenario of the specification: numFound 120, page size 50.
Scenarios == {<<120, 50>>}

Inputs == ((0..MaxN) \X (0..MaxP)) \cup Scenarios

\* fetch_list's while loop is cut after this many page requests.
MaxListPages == MaxN + 2

VARIABLES
    total,       \* the server's number of matching documents
    rows,        \* IA.params['rows'] and fetch_list's page_size
    page,        \* IA.params['page']
    docs,        \* IA.docs, the buffer
    more,        \* IA.more
    requested,   \* history: page indices the IA object has requested, in order
    fetched,     \* history: how each of these requests ended: "ok" | "empty" |
                 \*   "error" | "badcount"
    mark,        \* history: Len(requested) when the current traversal began
    log,         \* history: outcome of each next() of the current traversal:
                 \*   k > 0 item k returned, 0 StopIteration, -1 fetch error raised,
                 \*   -2 IndexError raised
    prevLog,     \* history: log of the previous traversal
    traversal,   \* history: number of iter() calls so far
    faults,      \* history: failed or anomalous search responses so far
    lpage,       \* fetch_list: page
    lnumFound,   \* fetch_list: numFound
    ldocs,       \* fetch_list: docs
    lpc,         \* fetch_list: "loop" | "done" | "raised"
    lrequested,  \* history: page indices fetch_list has requested
    cmode,       \* __main__: args.command, or "api" for a direct call of fetch_clio
    cdoc,        \* __main__: the IA document at hand, an index into DocPool (0: none)
    carg,        \* __main__: args.identifier of the clio command, or the api caller's
    cdelay,      \* the delay the outermost fetch_clio call is made with
    clioArg,     \* fetch_clio: identifier
    retry_after, \* fetch_clio: retry_after of the innermost call
    cpc,         \* "idle" | "main" | "call" | "returned" | "raised" | "usage"
    cresult,     \* "none" | "record" | "placeholder" | "KeyError" | "ValueError"
    resps,       \* history: the catalog's responses, one per request, in order
    clog,        \* history: the sleeps and requests of fetch_clio, in order
    dsrc,        \* dump_iterable: what docs iterates over: "list" | "ia" | "none"
    dinput,      \* history: the sequence a "list" source was built from
    dseq,        \* the part of a "list" source not yet handed out
    dpc,         \* dump_iterable: the line about to run, "done", "raised" or "idle"
    ddoc,        \* dump_iterable: doc (0 is None)
    dgot,        \* history: what each next(docs, None) returned (0 is None)
    dout         \* history: what has been printed, one token per print

iaVars == <<total, rows, page, docs, more, requested, fetched, mark, log,
            prevLog, traversal, faults>>
listVars == <<lpage, lnumFound, ldocs, lpc, lrequested>>
clioVars == <<cmode, cdoc, carg, cdelay, clioArg, retry_after, cpc, cresult,
              resps, clog>>
dumpVars == <<dsrc, dinput, dseq, dpc, ddoc, dgot, dout>>
vars == <<iaVars, listVars, clioVars, dumpVars>>

Min(a, b) == IF a < b THEN a ELSE b

\* ------------------------------------------------------------ search server
\* Page k of a result list of n documents cut into pages of r rows; documents
\* are named by their rank 1..n in the server's order.
ServerPage(n, r, k) ==
    LET lo == (k - 1) * r + 1
        hi == Min(k * r, n)
    IN  IF hi < lo THEN <<>> ELSE [i \in 1..(hi - lo + 1) |-> lo + i - 1]

\* The decoded body of a search response: "ok" is the page asked for, "empty"
\* a body that reports the total but carries no documents, "badcount" a body
\* with the page's documents whose numFound int() cannot convert.
Response(outcome, n, r, k) ==
    [numFound |-> n,
     docs |-> IF outcome \in {"ok", "badcount"} THEN ServerPage(n, r, k) ELSE <<>>]

\* How a page fetch can end: with a usable response ("ok", "empty"), with
\* requests.get or json.loads raising ("error": lines 44-45), or with the
\* conversion of numFound raising after the buffer was replaced ("badcount":
\* line 47).
FetchOutcomes(f) ==
    IF f < MaxFaults THEN {"ok", "error", "empty", "badcount"} ELSE {"ok"}

\* ---------------------------------------------------------------------- IA
\* __fetch_next_page__, line 48
MorePagesEarly(nf, r, p) == nf > r * (p + 1)
MorePages(nf, r, p) == nf > r * p

\* __next__, line 54
NeedFetchAhead(d, m) == Len(d) <= 1 /\ m
NeedFetchWhileMore(d, m) == m
NeedFetch(d, m) == Len(d) = 0 /\ m

\* __next__, line 56
ExhaustedUnlessMore(d, m) == Len(d) = 0 /\ ~m
Exhausted(d, m) == Len(d) = 0

\* __next__, line 58: docs.pop(0) returns the first element and keeps the rest
PopLast(d) == [item |-> d[Len(d)], rest |-> SubSeq(d, 1, Len(d) - 1)]
Pop(d) == [item |-> Head(d), rest |-> Tail(d)]

\* __iter__: the page cursor in params is left as it is
IterPageReset(p) == 0
IterPage(p) == p

Stops(l) == Len(SelectSeq(l, LAMBDA x : x = 0))
Yielded(l) == SelectSeq(l, LAMBDA x : x > 0)

\* fetch_iter builds IA(queries, page_size) with page = 1 and calls iter() on it.
InitIA ==
    /\ \E in \in Inputs : total = in[1] /\ rows = in[2]
    /\ page = 1 - 1
    /\ docs = <<>>
    /\ more = TRUE
    /\ requested = <<>>
    /\ fetched = <<>>
    /\ mark = 0
    /\ log = <<>>
    /\ prevLog = <<>>
    /\ traversal = 1
    /\ faults = 0

\* an IA object nobody uses
IdleIA ==
    /\ total = 0 /\ rows = 0 /\ page = 0 /\ docs = <<>> /\ more = TRUE
    /\ requested = <<>> /\ fetched = <<>>
    /\ mark = 0 /\ log = <<>> /\ prevLog = <<>>
    /\ traversal = 1 /\ faults = 0

\* iter(ia) on the existing object
IterCall ==
    /\ traversal < MaxTraversals
    /\ docs' = <<>>
    /\ more' = TRUE
    /\ page' = IterPage(page)
    /\ traversal' = traversal + 1
    /\ prevLog' = log
    /\ log' = <<>>
    /\ mark' = Len(requested)
    /\ UNCHANGED <<total, rows, requested, fetched, faults>>
    /\ UNCHANGED <<listVars, clioVars, dumpVars>>

\* The rest of __next__ once the buffer is d and the flag m (lines 56-58).
\* -2 records the IndexError of popping an empty list.
Finish(d, m) ==
    /\ more' = m
    /\ IF Exhausted(d, m)
       THEN docs' = d /\ log' = Append(log, 0)
       ELSE IF Len(d) = 0
            THEN docs' = d /\ log' = Append(log, -2)
            ELSE docs' = Pop(d).rest /\ log' = Append(log, Pop(d).item)

\* __fetch_next_page__, line 43
NextPage(p) == p + 1

\* __next__, line 55: nothing catches what __fetch_next_page__ raises, so the
\* call ends with that exception
SwallowedAsEnd(l) == Append(l, 0)
Raised(l) == Append(l, -1)

\* __next__ with the __fetch_next_page__ it may call, on the IA object alone
IANext ==
    /\ Stops(log) < MaxStops
    /\ IF NeedFetch(docs, more)
       THEN \E outcome \in FetchOutcomes(faults) :
              LET p1 == NextPage(page)
                  resp == Response(outcome, total, rows, p1)
              IN  /\ page' = p1
                  /\ requested' = Append(requested, p1)
                  /\ fetched' = Append(fetched, outcome)
                  /\ IF outcome = "error"
                     THEN /\ docs' = docs
                          /\ more' = more
                          /\ log' = Raised(log)
                     ELSE IF outcome = "badcount"
                     THEN /\ docs' = resp.docs
                          /\ more' = more
                          /\ log' = Raised(log)
                     ELSE Finish(resp.docs, MorePages(resp.numFound, rows, p1))
                  /\ faults' = IF outcome = "ok" THEN faults ELSE faults + 1
       ELSE /\ Finish(docs, more)
            /\ UNCHANGED <<page, requested, fetched, faults>>
    /\ UNCHANGED <<total, rows, mark, prevLog, traversal>>

\* next(ia) called by the user of the iterator
NextCall == IANext /\ UNCHANGED <<listVars, clioVars, dumpVars>>

\* ----------------------------------------------------------- dump_iterable
IdleDump ==
    /\ dsrc = "none" /\ dinput = <<>> /\ dseq = <<>> /\ dpc = "idle"
    /\ ddoc = 0 /\ dgot = <<>> /\ dout = <<>>

\* what print writes: a bracket, a comma, or json.dumps(doc) of document v
Tok(t) == [t |-> t, v |-> 0]
DocTok(d) == [t |-> "doc", v |-> d]

\* sequences of at most MaxDumpLen elements, each document 1 or 2 or None (0)
DumpInputs == UNION {[1..n -> 0..2] : n \in 0..MaxDumpLen}

\* The IA object when the generator expression of line 245 (231, 243) has
\* been created over fetch_ebooks(...): the expression calls iter() on the
\* object that fetch_iter returned, the second iter() on it, before any next().
GeneratorOverIA ==
    /\ \E in \in Inputs : total = in[1] /\ rows = in[2]
    /\ page = IterPage(1 - 1)
    /\ docs = <<>>
    /\ more = TRUE
    /\ requested = <<>>
    /\ fetched = <<>>
    /\ mark = 0
    /\ log = <<>>
    /\ prevLog = <<>>
    /\ traversal = 1 + 1
    /\ faults = 0

\* dump_iterable(iter(list)) over a sequence, or dump_iterable over a generator
\* that maps the documents of fetch_ebooks one by one (line 245)
InitDump ==
    /\ \/ /\ dsrc = "list" /\ dinput \in DumpInputs /\ IdleIA
       \/ /\ dsrc = "ia" /\ dinput = <<>> /\ GeneratorOverIA
    /\ dseq = dinput
    /\ dpc = "l199"
    /\ ddoc = 0
    /\ dgot = <<>>
    /\ dout = <<>>

\* line 199
DumpOpen ==
    /\ dpc = "l199"
    /\ dout' = Append(dout, Tok("["))
    /\ dpc' = "l200"
    /\ UNCHANGED <<dsrc, dinput, dseq, ddoc, dgot>>
    /\ UNCHANGED <<iaVars, listVars, clioVars>>

\* where the statement after each doc = next(docs, None) is
AfterPull(pc) == IF pc = "l200" THEN "l201" ELSE "l204"

\* lines 200, 203, 207: doc = next(docs, None)
DumpPull ==
    /\ dpc \in {"l200", "l203", "l207"}
    /\ IF dsrc = "list"
       THEN /\ IF Len(dseq) = 0
               THEN ddoc' = 0 /\ dseq' = dseq
               ELSE ddoc' = Head(dseq) /\ dseq' = Tail(dseq)
            /\ dgot' = Append(dgot, ddoc')
            /\ dpc' = AfterPull(dpc)
            /\ UNCHANGED iaVars
       ELSE /\ IANext
            /\ LET r == log'[Len(log')]
               IN  IF r < 0
                   THEN dpc' = "raised" /\ UNCHANGED <<ddoc, dgot>>
                   ELSE /\ ddoc' = r
                        /\ dgot' = Append(dgot, r)
                        /\ dpc' = AfterPull(dpc)
            /\ UNCHANGED dseq
    /\ UNCHANGED <<dsrc, dinput, dout>>
    /\ UNCHANGED <<listVars, clioVars>>

\* lines 201-202
DumpFirst ==
    /\ dpc = "l201"
    /\ IF ddoc # 0
       THEN dout' = Append(dout, DocTok(ddoc)) /\ dpc' = "l203"
       ELSE dout' = dout /\ dpc' = "l208"
    /\ UNCHANGED <<dsrc, dinput, dseq, ddoc, dgot>>
    /\ UNCHANGED <<iaVars, listVars, clioVars>>

\* lines 205-206
LoopPrintsCommaLast(d) == <<DocTok(d), Tok(",")>>
LoopPrints(d) == <<Tok(","), DocTok(d)>>

\* lines 204-206
DumpLoop ==
    /\ dpc = "l204"
    /\ IF ddoc # 0
       THEN dout' = dout \o LoopPrints(ddoc) /\ dpc' = "l207"
       ELSE dout' = dout /\ dpc' = "l208"
    /\ UNCHANGED <<dsrc, dinput, dseq, ddoc, dgot>>
    /\ UNCHANGED <<iaVars, listVars, clioVars>>

\* line 208
DumpClose ==
    /\ dpc = "l208"
    /\ dout' = Append(dout, Tok("]"))
    /\ dpc' = "done"
    /\ UNCHANGED <<dsrc, dinput, dseq, ddoc, dgot>>
    /\ UNCHANGED <<iaVars, listVars, clioVars>>

\* -------------------------------------------------------------- fetch_list
InitList ==
    /\ lpage = 0
    /\ lnumFound = 1
    /\ ldocs = <<>>
    /\ lpc = "loop"
    /\ lrequested = <<>>

\* line 93
ListContinues(nf, r, p) == nf > r * p

\* One evaluation of the while condition and, when it holds, one loop body.
ListStep ==
    /\ lpc = "loop"
    /\ IF ListContinues(lnumFound, rows, lpage)
       THEN /\ lpage < MaxListPages
            /\ \E outcome \in {"ok", "error"} :
                 LET p1 == lpage + 1
                     resp == Response(outcome, total, rows, p1)
                 IN  /\ lpage' = p1
                     /\ lrequested' = Append(lrequested, p1)
                     /\ IF outcome = "error"
                        THEN lpc' = "raised" /\ UNCHANGED <<lnumFound, ldocs>>
                        ELSE /\ lnumFound' = resp.numFound
                             /\ ldocs' = ldocs \o resp.docs
                             /\ lpc' = "loop"
       ELSE /\ lpc' = "done"
            /\ UNCHANGED <<lpage, lnumFound, ldocs, lrequested>>
    /\ UNCHANGED <<iaVars, clioVars, dumpVars>>

\* ----------------------------------------------------------------- strings
\* A Python str is the sequence of its characters. A character outside ASCII,
\* and the vertical tab, is written by the name of its code point ("U+0663").
\* [0-9]
Digits == {"0", "1", "2", "3", "4", "5", "6", "7", "8", "9"}
HexChars == <<"0", "1", "2", "3", "4", "5", "6", "7", "8", "9",
        "A", "B", "C", "D", "E", "F">>

RECURSIVE Hex(_)
Hex(n) ==
    IF n < 16 THEN HexChars[n + 1]
    ELSE Hex(n \div 16) \o HexChars[(n % 16) + 1]

\* the name of the character with code point n: U+ and four or more hex digits
CodePoint(n) ==
    "U+" \o (IF n < 16 THEN "000" ELSE IF n < 256 THEN "00"
             ELSE IF n < 4096 THEN "0" ELSE "") \o Hex(n)

\* The decimal digits (category Nd) outside ASCII come in runs of ten, digit
\* zero to digit nine; these are the code points of the 65 digits zero
\* (1632 is ARABIC-INDIC DIGIT ZERO, 2406 DEVANAGARI DIGIT ZERO, ...).
DigitZeros ==
    {1632, 1776, 1984, 2406, 2534, 2662, 2790, 2918, 3046, 3174, 3302, 3430,
     3558, 3664, 3792, 3872, 4160, 4240, 6112, 6160, 6470, 6608, 6784, 6800,
     6992, 7088, 7232, 7248, 42528, 43216, 43264, 43472, 43504, 43600,
     44016, 65296, 66720, 68912, 69734, 69872, 69942, 70096, 70384, 70736,
     70864, 71248, 71360, 71472, 71904, 72016, 72784, 73040, 73120, 92768,
     92864, 93008, 120782, 120792, 120802, 120812, 120822, 123200, 123632,
     125264, 130032}

\* the value of each decimal digit outside ASCII
NonAsciiDigitValue ==
    [c \in {CodePoint(z + v) : z \in DigitZeros, v \in 0..9} |->
        CHOOSE v \in 0..9 : \E z \in DigitZeros : c = CodePoint(z + v)]

NonAsciiDigits == DOMAIN NonAsciiDigitValue
\* \d of a str pattern, and the digits int() converts: any decimal digit
DecimalDigits == Digits \cup NonAsciiDigits
Letters == {"a", "b", "c", "d", "e", "f", "g", "h", "i", "j", "k", "l",
        "m", "n", "o", "p", "q", "r", "s", "t", "u", "v", "w", "x", "y",
        "z", "A", "B", "C", "D", "E", "F", "G", "H", "I", "J", "K", "L",
        "M", "N", "O", "P", "Q", "R", "S", "T", "U", "V", "W", "X", "Y",
        "Z"}
AlNum == Digits \cup Letters

\* the optional value: Python's None or a str
None == [some |-> FALSE, val |-> <<>>]
Some(s) == [some |-> TRUE, val |-> s]

RECURSIVE RunLen(_, _, _)
\* length of the longest run of characters of class C that starts at s[i]
RunLen(s, i, C) ==
    IF i <= Len(s) /\ s[i] \in C THEN 1 + RunLen(s, i + 1, C) ELSE 0

\* ---------------------------------------------------------------- clio_id
\* CLIO_DERIVED_ID.match(s): '^ldpd[_]+([0-9A-Za-z]+)[_]+\d+$'; group 1 or None.
\* Neighbouring pieces of the pattern share no character, so each + takes the
\* whole run; \d is any decimal digit, [0-9A-Za-z] is ASCII only; $ also
\* matches before a newline that ends the string.
DerivedMatch(s) ==
    LET u1 == RunLen(s, 5, {"_"})
        a0 == 5 + u1
        a == RunLen(s, a0, AlNum)
        u2 == RunLen(s, a0 + a, {"_"})
        d0 == a0 + a + u2
        d == RunLen(s, d0, DecimalDigits)
        e == d0 + d
    IN  IF /\ Len(s) >= 4
           /\ SubSeq(s, 1, 4) = <<"l", "d", "p", "d">>
           /\ u1 >= 1 /\ a >= 1 /\ u2 >= 1 /\ d >= 1
           /\ (e = Len(s) + 1 \/ (e = Len(s) /\ s[e] = "\n"))
        THEN Some(SubSeq(s, a0, a0 + a - 1))
        ELSE None

\* The fixed part of CLIO_LINK, '"http:\/\/clio.columbia.edu\/catalog\/'; its
\* dots are unescaped and match any character but a newline.
LinkPrefix == <<"\"", "h", "t", "t", "p", ":", "/", "/", "c", "l", "i",
        "o", ".", "c", "o", "l", "u", "m", "b", "i", "a", ".", "e", "d",
        "u", "/", "c", "a", "t", "a", "l", "o", "g", "/">>

LinkMatchAt(t, i) ==
    LET L == Len(LinkPrefix)
        r == RunLen(t, i + L, AlNum)
    IN  /\ i + L - 1 <= Len(t)
        /\ \A j \in 1..L :
              IF LinkPrefix[j] = "." THEN t[i + j - 1] # "\n"
                                     ELSE t[i + j - 1] = LinkPrefix[j]
        /\ r >= 1
        /\ i + L + r <= Len(t)
        /\ t[i + L + r] = "\""

\* CLIO_LINK.search(t): group 1 of the leftmost match, or None
LinkSearch(t) ==
    LET at == {i \in 1..Len(t) : LinkMatchAt(t, i)}
        i0 == CHOOSE i \in at : \A j \in at : i <= j
        g0 == i0 + Len(LinkPrefix)
    IN  IF at = {} THEN None
        ELSE Some(SubSeq(t, g0, g0 + RunLen(t, g0, AlNum) - 1))

\* the two strategies in the other order
clio_idLinkFirst(doc) ==
    LET link_match == LinkSearch(IF doc.has_tags THEN doc.stripped_tags ELSE <<>>)
    IN  IF link_match.some THEN link_match ELSE DerivedMatch(doc.identifier)

clio_id(doc) ==
    LET id_match == DerivedMatch(doc.identifier)
    IN  IF id_match.some
        THEN id_match
        ELSE LinkSearch(IF doc.has_tags THEN doc.stripped_tags ELSE <<>>)

\* IA documents: identifier and, when has_tags, stripped_tags
Doc1 ==
    [identifier |-> <<"l", "d", "p", "d", "_", "1", "2", "3", "4", "a",
        "b", "c", "_", "5", "6", "7", "8">>,
     has_tags |-> FALSE,
     stripped_tags |-> <<>>]
Doc2 ==
    [identifier |-> <<"l", "d", "p", "d", "_", "1", "2", "_", "3", "4">>,
     has_tags |-> TRUE,
     stripped_tags |-> <<"a", " ", "\"", "h", "t", "t", "p", ":", "/", "/",
        "c", "l", "i", "o", ".", "c", "o", "l", "u", "m", "b", "i", "a",
        ".", "e", "d", "u", "/", "c", "a", "t", "a", "l", "o", "g", "/",
        "9", "9", "\"", " ", "b">>]
Doc3 ==
    [identifier |-> <<"b", "o", "o", "k", "1">>,
     has_tags |-> TRUE,
     stripped_tags |-> <<"s", "e", "e", " ", "\"", "h", "t", "t", "p", ":",
        "/", "/", "c", "l", "i", "o", ".", "c", "o", "l", "u", "m", "b",
        "i", "a", ".", "e", "d", "u", "/", "c", "a", "t", "a", "l", "o",
        "g", "/", "9", "9", "9", "9", "\"", " ", "x">>]
Doc4 ==
    [identifier |-> <<"b", "o", "o", "k", "1">>,
     has_tags |-> FALSE,
     stripped_tags |-> <<>>]
Doc5 ==
    [identifier |-> <<"b", "o", "o", "k", "1">>,
     has_tags |-> TRUE,
     stripped_tags |-> <<"s", "e", "e", " ", "\"", "h", "t", "t", "p", "s",
        ":", "/", "/", "c", "l", "i", "o", ".", "c", "o", "l", "u", "m",
        "b", "i", "a", ".", "e", "d", "u", "/", "c", "a", "t", "a", "l",
        "o", "g", "/", "9", "9", "9", "9", "\"", " ", "x">>]
Doc6 ==
    [identifier |-> <<"b", "o", "o", "k", "1">>,
     has_tags |-> TRUE,
     stripped_tags |-> <<"h", "t", "t", "p", ":", "/", "/", "c", "l", "i",
        "o", ".", "c", "o", "l", "u", "m", "b", "i", "a", ".", "e", "d",
        "u", "/", "c", "a", "t", "a", "l", "o", "g", "/", "9", "9", "9",
        "9">>]
Doc7 ==
    [identifier |-> <<"l", "d", "p", "d", "_", "_", "7", "x", "_", "_",
        "8", "\n">>,
     has_tags |-> FALSE,
     stripped_tags |-> <<>>]
Doc8 ==
    [identifier |-> <<"x", "l", "d", "p", "d", "_", "1", "_", "2">>,
     has_tags |-> TRUE,
     stripped_tags |-> <<>>]
Doc9 ==
    [identifier |-> <<"l", "d", "p", "d", "_", "1", "_", "2", "b">>,
     has_tags |-> TRUE,
     stripped_tags |-> <<"\"", "h", "t", "t", "p", ":", "/", "/", "c", "l",
        "i", "o", "X", "c", "o", "l", "u", "m", "b", "i", "a", "Y", "e",
        "d", "u", "/", "c", "a", "t", "a", "l", "o", "g", "/", "7", "\"",
        "\"", "h", "t", "t", "p", ":", "/", "/", "c", "l", "i", "o", ".",
        "c", "o", "l", "u", "m", "b", "i", "a", ".", "e", "d", "u", "/",
        "c", "a", "t", "a", "l", "o", "g", "/", "8", "\"">>]
Doc10 ==
    [identifier |-> <<"l", "d", "p", "d", "_", "a", "b", "_">>,
     has_tags |-> TRUE,
     stripped_tags |-> <<"\"", "h", "t", "t", "p", ":", "/", "/", "c", "l",
        "i", "o", ".", "c", "o", "l", "u", "m", "b", "i", "a", ".", "e",
        "d", "u", "/", "c", "a", "t", "a", "l", "o", "g", "/", "\"">>]
Doc11 ==
    [identifier |-> <<"l", "d", "p", "d", "_", "1", "_", "U+0663">>,
     has_tags |-> FALSE,
     stripped_tags |-> <<>>]
Doc12 ==
    [identifier |-> <<"l", "d", "p", "d", "_", "1", "_", "2", "U+FF12">>,
     has_tags |-> TRUE,
     stripped_tags |-> <<"\"", "h", "t", "t", "p", ":", "/", "/", "c", "l",
        "i", "o", ".", "c", "o", "l", "u", "m", "b", "i", "a", ".", "e",
        "d", "u", "/", "c", "a", "t", "a", "l", "o", "g", "/", "8", "\"">>]
Doc14 ==
    [identifier |-> <<"l", "d", "p", "d", "_", "a", "b", "_", "U+0BE7",
        "U+1D7D8", "\n">>,
     has_tags |-> TRUE,
     stripped_tags |-> <<"x">>]
Doc13 ==
    [identifier |-> <<"l", "d", "p", "d", "_", "U+0663", "_", "1">>,
     has_tags |-> TRUE,
     stripped_tags |-> <<"\"", "h", "t", "t", "p", ":", "/", "/", "c", "l",
        "i", "o", ".", "c", "o", "l", "u", "m", "b", "i", "a", ".", "e",
        "d", "u", "/", "c", "a", "t", "a", "l", "o", "g", "/", "U+0663",
        "\"">>]
DocPool == <<Doc1, Doc2, Doc3, Doc4, Doc5, Doc6, Doc7, Doc8, Doc9, Doc10,
        Doc11, Doc12, Doc13, Doc14>>

\* --------------------------------------------------------------- fetch_clio
\* int(s) of Python for a str s.
\* The whitespace int() ignores around the number: the ASCII blank, tab,
\* newline, vertical tab (11), form feed and return, and the 19 spaces outside
\* ASCII: U+0085, U+00A0, U+1680, U+2000..U+200A, U+2028, U+2029, U+202F,
\* U+205F, U+3000. The separators U+001C..U+001F are not among them.
IntSpace ==
    {" ", "\t", "\n", "\f", "\r"} \cup
    {CodePoint(n) : n \in {11, 133, 160, 5760} \cup (8192..8202) \cup
                         {8232, 8233, 8239, 8287, 12288}}

Strip(s) ==
    LET lead == RunLen(s, 1, IntSpace)
        rest == SubSeq(s, lead + 1, Len(s))
        keep == CHOOSE k \in 0..Len(rest) :
                   /\ k = 0 \/ rest[k] \notin IntSpace
                   /\ \A j \in (k + 1)..Len(rest) : rest[j] \in IntSpace
    IN  SubSeq(rest, 1, keep)

Unsigned(s) ==
    IF Len(s) >= 1 /\ s[1] \in {"+", "-"} THEN Tail(s) ELSE s

DigitValue(c) ==
    CASE c = "0" -> 0 [] c = "1" -> 1 [] c = "2" -> 2 [] c = "3" -> 3
      [] c = "4" -> 4 [] c = "5" -> 5 [] c = "6" -> 6 [] c = "7" -> 7
      [] c = "8" -> 8 [] c = "9" -> 9
      [] c \in NonAsciiDigits -> NonAsciiDigitValue[c]

RECURSIVE Magnitude(_)
\* the value of digits with single underscores between them
Magnitude(s) ==
    IF Len(s) = 0 THEN 0
    ELSE IF s[Len(s)] = "_" THEN Magnitude(SubSeq(s, 1, Len(s) - 1))
    ELSE 10 * Magnitude(SubSeq(s, 1, Len(s) - 1)) + DigitValue(s[Len(s)])

\* int(s) does not raise ValueError: around the whitespace an optional sign,
\* then decimal digits, with single underscores allowed between two digits
IntOk(s) ==
    LET u == Unsigned(Strip(s))
    IN  /\ Len(u) >= 1
        /\ \A j \in 1..Len(u) : u[j] \in DecimalDigits \cup {"_"}
        /\ u[1] # "_" /\ u[Len(u)] # "_"
        /\ \A j \in 1..(Len(u) - 1) : ~(u[j] = "_" /\ u[j + 1] = "_")

IntValue(s) ==
    LET t == Strip(s)
    IN  IF t[1] = "-" THEN 0 - Magnitude(Unsigned(t)) ELSE Magnitude(Unsigned(t))

\* values of the Retry-After header
HeaderValues ==
    {<<"3">>,
     <<"0">>,
     <<"-", "1">>,
     <<"-", "2">>,
     <<"-", "3">>,
     <<" ", "7", " ">>,
     <<"W", "e", "d">>,
     <<"+", "2">>,
     <<"\t", "3", "\n">>,
     <<"1", "_", "0">>,
     <<"1", "_", "_", "0">>,
     <<"U+0663">>,
     <<"1", "U+0667">>,
     <<"U+2000", "3", "U+1680">>,
     <<"U+001C", "3">>}

\* A catalog response: status code, whether next(marc_reader) returns a record
\* ("ok") or raises ValueError / RecordLengthInvalid ("invalid"), and the
\* Retry-After header.
Responses ==
    {[status |-> 429, parsed |-> p, has_retry_after |-> TRUE, retry_after_hdr |-> h] :
        p \in {"ok", "invalid"}, h \in HeaderValues}
    \cup
    {[status |-> st, parsed |-> p, has_retry_after |-> FALSE, retry_after_hdr |-> <<>>] :
        st \in {200, 429, 503}, p \in {"ok", "invalid"}}

\* delays a direct caller of fetch_clio passes
ApiDelays == {-1, 0, 2, -5}

\* line 162
SleepsFirst(ra) == ra # -1

\* line 168
RetriesOn429Always(ra, status) == status = 429
Retries(ra, status) == (ra = -1) /\ (status = 429)

\* line 169
RetryDelayAsTold(h) == IntValue(h)
RetryDelay(h) == IntValue(h) + 1

IdleClio ==
    /\ cmode = "none" /\ cdoc = 0 /\ carg = None /\ cdelay = -1
    /\ clioArg = None /\ retry_after = -1
    /\ cpc = "idle" /\ cresult = "none" /\ resps = <<>> /\ clog = <<>>

\* __main__ with --clio and the json format (list-ebooks, ebook), the clio
\* command, or a direct call fetch_clio(identifier, retry_after)
InitClio ==
    /\ \/ /\ cmode \in {"list-ebooks", "ebook"}
          /\ cdoc \in 1..Len(DocPool)
          /\ carg = None
          /\ cdelay = -1
       \/ /\ cmode = "clio"
          /\ cdoc = 0
          /\ carg \in {None, Some(<<"1", "2">>)}
          /\ cdelay = -1
       \/ /\ cmode = "api"
          /\ cdoc = 0
          /\ carg = Some(<<"1", "2">>)
          /\ cdelay \in ApiDelays
    /\ clioArg = None /\ retry_after = -1
    /\ cpc = "main" /\ cresult = "none" /\ resps = <<>> /\ clog = <<>>

\* lines 243 and 256: fetch_clio(clio_id(doc)), whatever clio_id returned
ListArg(doc) == clio_id(doc)

\* The caller reaches its call of fetch_clio (lines 243, 256, 263-265).
MainCall ==
    /\ cpc = "main"
    /\ IF cmode = "clio" /\ ~carg.some
       THEN /\ cpc' = "usage"
            /\ UNCHANGED <<clioArg, retry_after>>
       ELSE /\ cpc' = "call"
            /\ clioArg' = IF cmode \in {"list-ebooks", "ebook"}
                          THEN ListArg(DocPool[cdoc]) ELSE carg
            /\ retry_after' = cdelay
    /\ UNCHANGED <<cmode, cdoc, carg, cdelay, cresult, resps, clog>>
    /\ UNCHANGED <<iaVars, listVars, dumpVars>>

\* One activation of fetch_clio, up to its return, its raise or its recursive call.
FetchClio ==
    /\ cpc = "call"
    /\ Len(resps) < MaxRequests
    /\ IF SleepsFirst(retry_after) /\ retry_after < 0
       THEN \* time.sleep raises ValueError for a negative length
            /\ cpc' = "raised"
            /\ cresult' = "ValueError"
            /\ UNCHANGED <<retry_after, resps, clog>>
       ELSE \E r \in Responses :
            /\ clog' = (IF SleepsFirst(retry_after)
                        THEN Append(clog, [ev |-> "sleep", n |-> retry_after])
                        ELSE clog)
                       \o <<[ev |-> "get", n |-> Len(resps) + 1]>>
            /\ resps' = Append(resps, r)
            /\ IF r.parsed = "ok"
               THEN /\ cpc' = "returned" /\ cresult' = "record"
                    /\ UNCHANGED retry_after
               ELSE IF Retries(retry_after, r.status)
               THEN IF ~r.has_retry_after
                    THEN /\ cpc' = "raised" /\ cresult' = "KeyError"
                         /\ UNCHANGED retry_after
                    ELSE IF ~IntOk(r.retry_after_hdr)
                    THEN /\ cpc' = "raised" /\ cresult' = "ValueError"
                         /\ UNCHANGED retry_after
                    ELSE /\ cpc' = "call" /\ cresult' = "none"
                         /\ retry_after' = RetryDelay(r.retry_after_hdr)
               ELSE /\ cpc' = "returned" /\ cresult' = "placeholder"
                    /\ UNCHANGED retry_after
    /\ UNCHANGED <<cmode, cdoc, carg, cdelay, clioArg>>
    /\ UNCHANGED <<iaVars, listVars, dumpVars>>

\* ------------------------------------------------------------ specification
\* the search side: one IA object and one fetch_list call over the same server
Init == InitIA /\ InitList /\ IdleClio /\ IdleDump

Next == IterCall \/ NextCall \/ ListStep

Spec == Init /\ [][Next]_vars

\* the catalog side: one call of fetch_clio from __main__ or from a direct caller
ClioInit == IdleIA /\ InitList /\ InitClio /\ IdleDump

ClioNext == MainCall \/ FetchClio

SpecClio == ClioInit /\ [][ClioNext]_vars

\* the output side: one call of dump_iterable
DumpInit == InitDump /\ InitList /\ IdleClio

DumpNext == DumpOpen \/ DumpPull \/ DumpFirst \/ DumpLoop \/ DumpClose

SpecDump == DumpInit /\ [][DumpNext]_vars

\* ------------------------------------------------- claims on IA, fetch_list
RECURSIVE PagesConcat(_, _, _)
\* the server's pages 1..k one after the other
PagesConcat(n, r, k) ==
    IF k = 0 THEN <<>> ELSE PagesConcat(n, r, k - 1) \o ServerPage(n, r, k)

Ranks(n) == [i \in 1..n |-> i]

\* first traversal of a fresh IA object over a server that answered every
\* request with the page asked for
FirstClean == traversal = 1 /\ faults = 0

\* C1: with page size P >= 1 and a server that reports numFound = N on every
\* page and returns each page in full, the traversal yields results 1..N, each
\* exactly once: what has been yielded is always the first results in order,
\* and at end-of-sequence it is all N of them.
C1_YieldsExactlyN ==
    (FirstClean /\ rows >= 1) =>
        /\ Yielded(log) = Ranks(Len(Yielded(log)))
        /\ Len(Yielded(log)) <= total
        /\ (Stops(log) >= 1 => Yielded(log) = Ranks(total))

C1_Witness ==
    /\ FirstClean /\ rows = 2 /\ total = 5
    /\ Stops(log) = 1 /\ Len(Yielded(log)) = 5 /\ Len(requested) = 3

\* C2: the pages are requested as 1, 2, 3, ... with no gap and no repeat, the
\* items yielded followed by the buffer are the fetched pages one after the
\* other, and numFound 120 with page size 50 ends after the 3 requests 1, 2, 3
\* with the 120 results yielded in server order.
C2_PagesConsecutiveFifo ==
    /\ requested = Ranks(Len(requested))
    /\ FirstClean =>
          Yielded(log) \o docs = PagesConcat(total, rows, Len(requested))
    /\ (FirstClean /\ total = 120 /\ rows = 50 /\ Stops(log) >= 1) =>
          /\ requested = <<1, 2, 3>>
          /\ Yielded(log) = Ranks(120)

C2_Witness ==
    /\ FirstClean /\ total = 120 /\ rows = 50
    /\ Stops(log) = 1 /\ requested = <<1, 2, 3>> /\ Len(Yielded(log)) = 120

\* C6: with page size 0 or numFound 0 the first next() of a traversal signals
\* end-of-sequence, having fetched at most one page, and no item is yielded.
C6_EmptyTerminatesAtOnce ==
    ((rows = 0 \/ total = 0) /\ faults = 0 /\ Len(log) >= 1) =>
        /\ log[1] = 0
        /\ Yielded(log) = <<>>
        /\ (Len(log) = 1 => Len(requested) - mark <= 1)

C6_Witness ==
    /\ rows = 0 /\ total = 3 /\ faults = 0
    /\ log = <<0>> /\ requested = <<1>>

C6_WitnessNoMatches ==
    /\ rows = 2 /\ total = 0 /\ faults = 0
    /\ log = <<0>> /\ requested = <<1>>

\* C7: a traversal begun by iter() after the previous one was exhausted
\* requests page 1 first and yields what the previous traversal yielded.
C7_ReiterRestartsAtPageOne ==
    (traversal = 2 /\ faults = 0 /\ Stops(prevLog) >= 1) =>
        /\ (Len(requested) > mark => requested[mark + 1] = 1)
        /\ (Stops(log) >= 1 => Yielded(log) = Yielded(prevLog))

\* the traversal ended with its first StopIteration and next() was not called again
ExhaustedOnce == Stops(log) = 1 /\ log[Len(log)] = 0

\* C8: over a server that answers both alike, fetch_list requests the pages
\* the exhausted iterator requested and returns the sequence it yielded.
C8_EagerEqualsIterator ==
    (FirstClean /\ ExhaustedOnce /\ lpc # "raised") =>
        /\ Len(lrequested) <= Len(requested)
        /\ (lpc = "done" => ldocs = Yielded(log) /\ lrequested = requested)

\* C9: with page size 0 or numFound 0 fetch_list makes at most one page request.
C9_EagerStopsAfterOnePage ==
    (rows = 0 \/ total = 0) => Len(lrequested) <= 1

\* the step is a page fetch that failed
FetchFailed ==
    /\ Len(fetched') = Len(fetched) + 1
    /\ fetched'[Len(fetched')] \in {"error", "badcount"}

\* C13: a next() whose page fetch fails ends with the error, has issued
\* exactly one search request and has yielded no item.
C13_FetchErrorPropagates ==
    [][FetchFailed =>
          /\ log' = Append(log, -1)
          /\ requested' = Append(requested, page + 1)
          /\ Yielded(log') = Yielded(log)]_vars

C13_Witness ==
    /\ total = 5 /\ rows = 2 /\ traversal = 1
    /\ fetched = <<"ok", "error">> /\ requested = <<1, 2>>
    /\ log = <<1, 2, -1>>

\* the latest request of this traversal was answered by a usable response
LastFetchAnswered ==
    Len(requested) > mark /\ fetched[Len(fetched)] \in {"ok", "empty"}

\* C15: the flag is true before the first fetch of a traversal (initially and
\* after iter()), and after a page fetch it is false exactly when
\* page index * page size >= the numFound of that response.
C15_MoreFlagExact ==
    /\ Len(requested) = mark => more
    /\ LastFetchAnswered =>
          /\ page = requested[Len(requested)]
          /\ ~more <=> page * rows >= total

\* the last page is full: 2 * 2 >= 4
C15_Witness ==
    /\ total = 4 /\ rows = 2 /\ requested = <<1, 2>> /\ LastFetchAnswered
    /\ page = 2 /\ ~more

C15_WitnessAfterIter ==
    /\ traversal = 2 /\ Stops(prevLog) >= 1 /\ Len(requested) = mark /\ more

Range(q) == {q[i] : i \in 1..Len(q)}

NoRepeats(q) == Cardinality(Range(q)) = Len(q)

\* the documents of the page requested last
LastPage ==
    IF Len(requested) = 0 THEN <<>>
    ELSE ServerPage(total, rows, requested[Len(requested)])

IsSuffix(q, w) ==
    Len(q) <= Len(w) /\ q = SubSeq(w, Len(w) - Len(q) + 1, Len(w))

\* the buffer is the not yet yielded tail of the page fetched last
BufferOfOnePage ==
    LET y == Yielded(prevLog) \o Yielded(log)
    IN  /\ IsSuffix(docs, LastPage)
        /\ Len(docs) <= rows
        /\ Range(docs) \cap Range(y) = {}
        /\ NoRepeats(y)

\* a page is requested only with the buffer empty and the flag true, and an
\* item that is yielded is no longer in the buffer
FetchAndPopSteps ==
    /\ requested' # requested => (docs = <<>> /\ more)
    /\ (Len(log') = Len(log) + 1 /\ log'[Len(log')] > 0) =>
          /\ log'[Len(log')] \notin Range(docs')
          /\ requested' = requested => docs = <<log'[Len(log')]>> \o docs'

\* C17: the buffer only ever holds not yet yielded results of the one page
\* fetched last, a page is fetched only when the buffer is empty and the flag
\* true, and a result leaves the buffer when it is yielded and is yielded at
\* most once.
C17_BufferIsOnePage ==
    [](BufferOfOnePage) /\ [][FetchAndPopSteps]_vars

C17_Witness ==
    /\ total = 5 /\ rows = 2 /\ requested = <<1, 2>>
    /\ Yielded(log) = <<1, 2, 3>> /\ docs = <<4>>

\* C18: after next() has raised StopIteration, every later next() of the same
\* traversal raises StopIteration too and sends no search request.
C18_EndIsFinal ==
    [][(Stops(log) >= 1 /\ Len(log') = Len(log) + 1) =>
          (log'[Len(log')] = 0 /\ requested' = requested)]_vars

\* the step is a __fetch_next_page__ whose request or JSON decoding raised
FailedFetchStep ==
    Len(fetched') = Len(fetched) + 1 /\ fetched'[Len(fetched')] = "error"

\* the results of the pages whose fetch failed
FailedResults ==
    UNION {Range(ServerPage(total, rows, requested[i])) :
             i \in {k \in 1..Len(fetched) : fetched[k] = "error"}}

StrictlyIncreasing(q) == \A i \in 1..(Len(q) - 1) : q[i] < q[i + 1]

CursorAndFailedPages ==
    /\ StrictlyIncreasing(requested)
    /\ Len(requested) > 0 => requested[Len(requested)] = page
    /\ FailedResults \cap (Range(Yielded(prevLog)) \cup Range(Yielded(log))) = {}

FailedFetchFrame ==
    /\ FailedFetchStep =>
          /\ docs' = docs /\ more' = more
          /\ page' = page + 1
          /\ log' = Append(log, -1)
    /\ requested' # requested => requested' = Append(requested, page + 1)
    /\ page' >= page

\* C19: a fetch that fails in the request or in the decoding leaves docs and
\* more as they were and the page cursor one further; the pages requested of
\* one IA object strictly increase, the request after a failed one is for the
\* following page, and no result of a failed page is ever yielded.
C19_FailedFetchAdvancesCursor ==
    [](CursorAndFailedPages) /\ [][FailedFetchFrame]_vars

\* a fetch of page 2 failed, the next call fetched page 3 and yielded from it
C19_Witness ==
    /\ total = 5 /\ rows = 2 /\ traversal = 1
    /\ requested = <<1, 2, 3>> /\ fetched = <<"ok", "error", "ok">>
    /\ log = <<1, 2, -1, 5>> /\ page = 3

\* --------------------------------------------------- claims on fetch_clio
\* the outermost call has returned or raised
ClioDone == cpc \in {"returned", "raised"}

\* C3: one outermost call of fetch_clio sends at most two requests to the
\* catalog, whatever the responses are.
C3_AtMostTwoRequests == Len(resps) <= 2

\* C4: when the body of the last response did not parse and no retry is
\* pending, fetch_clio has returned the placeholder Record and has not raised.
C4_ParseFailureReturnsPlaceholder ==
    (cpc # "call" /\ Len(resps) >= 1 /\ resps[Len(resps)].parsed = "invalid") =>
        cpc = "returned" /\ cresult = "placeholder"

\* C5: a call made with the default delay sends a second request exactly when
\* the first body did not parse and the first status was 429; a body that
\* parses is returned after one request, and a parse failure with another
\* status gives the placeholder after one request.
C5_SecondRequestIffThrottledFailure ==
    (cdelay = -1 /\ ClioDone) =>
        /\ Len(resps) >= 2 <=>
              (resps[1].parsed = "invalid" /\ resps[1].status = 429)
        /\ resps[1].parsed = "ok" => (cresult = "record" /\ Len(resps) = 1)
        /\ (resps[1].parsed = "invalid" /\ resps[1].status # 429) =>
              (cresult = "placeholder" /\ Len(resps) = 1)

Get(k) == [ev |-> "get", n |-> k]
Sleep(d) == [ev |-> "sleep", n |-> d]

RECURSIVE Slept(_)
\* seconds slept in a sequence of events
Slept(evs) ==
    IF Len(evs) = 0 THEN 0
    ELSE Slept(Tail(evs)) + (IF Head(evs).ev = "sleep" THEN Head(evs).n ELSE 0)

\* the events before the k-th request
Before(k) ==
    LET at == CHOOSE i \in 1..Len(clog) : clog[i] = Get(k)
    IN  SubSeq(clog, 1, at - 1)

\* C16: a call made with the default delay sends its first request without
\* sleeping; when it retries after a 429 with Retry-After d, it has slept at
\* least d + 1 seconds before the second request, in one sleep of d + 1
\* seconds that comes between the two requests (4 seconds for Retry-After 3).
C16_SleepsBeforeRetry ==
    cdelay = -1 =>
        /\ Len(clog) >= 1 => clog[1] = Get(1)
        /\ Len(resps) >= 2 =>
              LET d == IntValue(resps[1].retry_after_hdr)
              IN  /\ Slept(Before(2)) >= d + 1
                  /\ d + 1 >= 0 =>
                        (clog[2] = Sleep(d + 1) /\ clog[3] = Get(2))
                  /\ resps[1].retry_after_hdr = <<"3">> =>
                        Slept(Before(2)) >= 4

C16_Witness ==
    /\ cdelay = -1 /\ Len(resps) = 2
    /\ resps[1].status = 429 /\ resps[1].parsed = "invalid"
    /\ resps[1].retry_after_hdr = <<"3">>
    /\ clog = <<Get(1), Sleep(4), Get(2)>>

\* the outermost call was made with a delay of the caller's, not the default
CallerDelay == cmode = "api" /\ cdelay # -1

OneDelayedAttempt ==
    /\ clog = <<Sleep(cdelay), Get(1)>>
    /\ Len(resps) = 1
    /\ cresult = IF resps[1].parsed = "ok" THEN "record" ELSE "placeholder"

\* C20 as stated: a call made with any delay other than -1 sleeps that long,
\* sends exactly one request and does not retry.
C20_AnyDelayIsOneAttempt ==
    (CallerDelay /\ ClioDone) => OneDelayedAttempt

\* an activation calls fetch_clio again only when its own delay is -1, and the
\* activation it starts has the delay Retry-After + 1
RetryOnlyOnSentinel ==
    (cpc = "call" /\ cpc' = "call") =>
        /\ retry_after = -1
        /\ retry_after' = IntValue(resps'[Len(resps')].retry_after_hdr) + 1

\* C20, for delays that can be slept: a call made with a delay of 0 or more
\* sleeps that long, sends exactly one request and returns without retrying,
\* also on a 429 whose body does not parse; an activation retries only when
\* its delay is -1, so the recursive activation is a non-first attempt exactly
\* when Retry-After + 1 is not -1.
C20_DelayedCallIsOneAttempt ==
    /\ []((CallerDelay /\ cdelay >= 0 /\ ClioDone) => OneDelayedAttempt)
    /\ [][RetryOnlyOnSentinel]_vars

C20_Witness ==
    /\ cmode = "api" /\ cdelay = 2 /\ cpc = "returned"
    /\ Len(resps) = 1
    /\ resps[1].status = 429 /\ resps[1].parsed = "invalid"
    /\ resps[1].retry_after_hdr = <<"3">>
    /\ clog = <<Sleep(2), Get(1)>> /\ cresult = "placeholder"

\* the recursive activation after Retry-After -2 has the delay -1 and retried
C20_WitnessSentinelAgain ==
    /\ cdelay = -1 /\ Len(resps) = 2 /\ cpc = "call"
    /\ resps[1].retry_after_hdr = <<"-", "2">>
    /\ resps[2].status = 429 /\ resps[2].parsed = "invalid"
    /\ clog = <<Get(1), Get(2)>>

\* C10: in the item-listing and single-item modes with catalog augmentation
\* fetch_clio is called with a present identifier only.
C10_CallersGuardAbsentId ==
    (cmode \in {"list-ebooks", "ebook"} /\ cpc # "main") => clioArg.some

\* ------------------------------------------------ claims on dump_iterable
RECURSIVE Joined(_)
\* the documents of ds in order, a comma between each two neighbours
Joined(ds) ==
    IF Len(ds) = 0 THEN <<>>
    ELSE IF Len(ds) = 1 THEN <<DocTok(ds[1])>>
    ELSE Joined(SubSeq(ds, 1, Len(ds) - 1)) \o <<Tok(","), DocTok(ds[Len(ds)])>>

Array(ds) == <<Tok("[")>> \o Joined(ds) \o <<Tok("]")>>

Commas(out) == Len(SelectSeq(out, LAMBDA x : x.t = ","))

\* the source hands out a finite sequence of documents, no None among them
AllDocuments(ds) == \A i \in 1..Len(ds) : ds[i] # 0

\* C11: for a sequence of n documents dump_iterable prints the opening
\* bracket, the n documents in order with a comma between each two neighbours
\* (max(n - 1, 0) commas, none dangling), and the closing bracket.
C11_EmitsBracketedJoined ==
    (dsrc = "list" /\ AllDocuments(dinput)) =>
        /\ dpc = "done" =>
              /\ dout = Array(dinput)
              /\ Commas(dout) = IF Len(dinput) = 0 THEN 0 ELSE Len(dinput) - 1
        /\ \A i \in 1..Len(dout) : dout[i] = Array(dinput)[i]

C11_Witness ==
    /\ dsrc = "list" /\ dinput = <<1, 2, 1>> /\ dpc = "done"
    /\ dout = <<Tok("["), DocTok(1), Tok(","), DocTok(2), Tok(","), DocTok(1),
                Tok("]")>>

C11_WitnessEmpty ==
    /\ dsrc = "list" /\ dinput = <<>> /\ dpc = "done"
    /\ dout = <<Tok("["), Tok("]")>>

\* the documents next(docs, None) has handed to dump_iterable
Pulled == SelectSeq(dgot, LAMBDA x : x > 0)

\* the documents dump_iterable has printed
Printed ==
    LET ts == SelectSeq(dout, LAMBDA x : x.t = "doc")
    IN  [i \in 1..Len(ts) |-> ts[i].v]

\* C12: dump_iterable prints each document before it pulls the next but one:
\* the printed documents are the pulled ones but at most the last, which is
\* the one held in doc; fed by the IA iterator it has pulled every result of
\* the pages before the last one fetched, and what is fetched and not pulled
\* is the buffer, never more than one page.
C12_StreamsOneAtATime ==
    /\ Len(Pulled) - Len(Printed) \in {0, 1}
    /\ Printed = SubSeq(Pulled, 1, Len(Printed))
    /\ Len(Pulled) > Len(Printed) => ddoc = Pulled[Len(Pulled)]
    /\ dsrc = "ia" => Pulled = Yielded(log)
    /\ (dsrc = "ia" /\ faults = 0 /\ Len(requested) >= 1) =>
          /\ Len(Pulled) >= Len(PagesConcat(total, rows, Len(requested) - 1))
          /\ Len(docs) <= rows

C12_Witness ==
    /\ dsrc = "ia" /\ total = 5 /\ rows = 2 /\ faults = 0
    /\ requested = <<1, 2>> /\ Pulled = <<1, 2, 3>> /\ Printed = <<1, 2>>
    /\ ddoc = 3 /\ docs = <<4>>

\* ------------------------------------------------------ claims on clio_id
\* s without the newline it may end with
Chomp(s) ==
    IF Len(s) >= 1 /\ s[Len(s)] = "\n" THEN SubSeq(s, 1, Len(s) - 1) ELSE s

All(s, i, j, C) == \A x \in i..j : s[x] \in C

\* the id segments s[i..j] of every way to read s as the structured pattern:
\* ldpd, underscores, the segment, underscores, digits
StructuredIds(s) ==
    LET ends == {Len(s), Len(Chomp(s))}
    IN  {SubSeq(s, ij[1], ij[2]) : ij \in
           {w \in (1..Len(s)) \X (1..Len(s)) :
              /\ Len(s) >= 4 /\ SubSeq(s, 1, 4) = <<"l", "d", "p", "d">>
              /\ 5 < w[1] /\ w[1] <= w[2]
              /\ All(s, 5, w[1] - 1, {"_"})
              /\ All(s, w[1], w[2], AlNum)
              /\ \E k \in (w[2] + 2)..Len(s) : \E e \in ends :
                    /\ k <= e
                    /\ All(s, w[2] + 1, k - 1, {"_"})
                    /\ All(s, k, e, DecimalDigits)}}

\* <<i, j>>: a catalog link as CLIO_LINK describes it starts at t[i] and its
\* id is t[i + Len(LinkPrefix) .. j], closed by the quote at t[j + 1]
LinkOccurrences(t) ==
    LET L == Len(LinkPrefix)
    IN  {w \in (1..Len(t)) \X (1..Len(t)) :
           /\ w[1] + L <= w[2] /\ w[2] + 1 <= Len(t)
           /\ \A x \in 1..L :
                 \/ LinkPrefix[x] = "." /\ t[w[1] + x - 1] # "\n"
                 \/ LinkPrefix[x] # "." /\ t[w[1] + x - 1] = LinkPrefix[x]
           /\ All(t, w[1] + L, w[2], AlNum)
           /\ t[w[2] + 1] = "\""}

FreeText(doc) == IF doc.has_tags THEN doc.stripped_tags ELSE <<>>

\* C14: the identifier's structured segment wins over a link in the free
\* text; without it the id of the first catalog link of the free text is
\* returned; without either, and also when the document has no free-text
\* field, the result is absent.
C14_FirstMatchWins ==
    (cmode \in {"list-ebooks", "ebook"} /\ cpc # "main") =>
        LET doc == DocPool[cdoc]
            ids == StructuredIds(doc.identifier)
            occ == LinkOccurrences(FreeText(doc))
        IN  /\ ids # {} => (clioArg.some /\ clioArg.val \in ids)
            /\ (ids = {} /\ occ # {}) =>
                  \E w \in occ :
                     /\ \A v \in occ : w[1] <= v[1]
                     /\ clioArg = Some(SubSeq(FreeText(doc),
                                              w[1] + Len(LinkPrefix), w[2]))
            /\ (ids = {} /\ occ = {}) => clioArg = None
            /\ cdoc = 1 => clioArg = Some(<<"1", "2", "3", "4", "a", "b", "c">>)
            /\ cdoc = 2 => clioArg = Some(<<"1", "2">>)
            /\ cdoc = 3 => clioArg = Some(<<"9", "9", "9", "9">>)
            /\ cdoc = 4 => clioArg = None
            /\ cdoc \in {11, 12} => clioArg = Some(<<"1">>)
            /\ cdoc = 13 => clioArg = None
            /\ cdoc = 14 => clioArg = Some(<<"a", "b">>)

\* the identifier matches and the free text links to another id
C14_Witness ==
    /\ cmode = "list-ebooks" /\ cdoc = 2 /\ cpc = "call"
    /\ StructuredIds(Doc2.identifier) = {<<"1", "2">>}
    /\ LinkOccurrences(Doc2.stripped_tags) # {}
    /\ clioArg = Some(<<"1", "2">>)

C14_WitnessNoFreeText ==
    /\ cmode = "ebook" /\ cdoc = 4 /\ cpc = "call" /\ ~Doc4.has_tags
    /\ clioArg = None

====
